---- MODULE Spec2Model ----
(***************************************************************************)
(* Model of byteps/common/operations.cc: the enqueue protocol              *)
(* (PartitionTensor, EnqueueTensor), the itinerary builders               *)
(* (GetPushQueueList, GetPullQueueList), the start of the stage loops      *)
(* (byteps_init) and the init protocol (InitTensor, EnqueueTensorInit).    *)
(*                                                                         *)
(* The scheduled queues, the stage loops and the context registry live in  *)
(* core_loops.cc, scheduled_queue.cc and global.cc; they are modelled from *)
(* sections 3, 4.3 and 4.4 of the specification.                           *)
(*                                                                         *)
(* Machine integers keep their C++ width, scaled down: an int and an       *)
(* unsigned int are WordBits wide (32 in the build), a size_t is twice     *)
(* that (64 in the build).                                                 *)
(***************************************************************************)
EXTENDS Integers, Sequences, FiniteSets, TLC

\* ------------------------------------------------------------- bounds
WordBits == 3
MaxSize == 4
MaxBound == 2
NumWorkers == 2
MaxInits == 2

\* ---------------------------------------------------- machine integers
Word == 2 ^ WordBits
IntMax == (Word \div 2) - 1
SizeWord == Word * Word

\* conversion to unsigned int
ToUnsigned(x) == x % Word

\* conversion to int (two's complement)
ToInt(x) == IF (x % Word) > IntMax THEN (x % Word) - Word ELSE x % Word

\* conversion to size_t
ToSizeT(x) == x % SizeWord

\* ------------------------------------------------------------ domains
CPU_DEVICE_ID == -1
GPU_DEVICE == 0
NumSwitches == 2
Devices == {CPU_DEVICE_ID, GPU_DEVICE}

QueueTypes == {"COORDINATE_REDUCE", "REDUCE", "COPYD2H", "PCIE_REDUCE",
               "COORDINATE_PUSH", "PUSH", "PULL", "COPYH2D",
               "COORDINATE_BROADCAST", "BROADCAST"}

LoopFunctions == {"PushLoop", "PullLoop", "CoordinatePushLoop", "PcieReduceLoop",
                  "CopyDevice2HostLoop", "RootCopyHost2DeviceLoop",
                  "NonRootCopyHost2DeviceLoop", "NonRootCopyListenLoop",
                  "SyncNcclLoop", "RootNcclLoop", "CoordinateReduceLoop",
                  "CoordinateBroadcastLoop", "NonRootNcclLoop"}

RoleFlags == [dist : BOOLEAN, root : BOOLEAN, pcie : BOOLEAN, sig : BOOLEAN]

\* a tensor argument (a shared_ptr<Tensor>): null, or a tensor of some byte size
NoTensor == {}
TensorSizes == 0 .. MaxSize
Tensors == {{n} : n \in TensorSizes}
SizeOf(tensor) == CHOOSE n \in tensor : TRUE
Bounds == 1 .. MaxBound

NoKey == -1
FirstKey == 100

\* one EnqueueTensor call is followed: calls share nothing but the stage queues
Calls == {1}

VARIABLES
    flags,      \* role flags of this process (BytePSGlobal)
    bound,      \* BytePSGlobal::GetPartitionBound()
    context,    \* the BPSContext the calls are made on
    running,    \* byteps_init has returned
    loops,      \* the loop functions handed to BytePSGlobal::Start
    shutdown,   \* byteps_shutdown has been called
    halted,     \* a BPS_CHECK failed: the process is terminated
    call,       \* per EnqueueTensor call: its arguments, locals and position
    queue,      \* per stage: the tasks its scheduled queue holds
    ctx,        \* init protocol: the BPSContext of the tensor in each process
    init,       \* init protocol: per process, the position and locals of InitTensor
    arrived,    \* init protocol: the workers waiting in the worker-group barrier
    pushed,     \* init protocol: the pushes the parameter server has received
    opened,     \* init protocol: per process, the shared-memory opens made
    script      \* init protocol: the cpubuff argument of the job's n-th init call

\* the variables of the init protocol
protoVars == <<ctx, init, arrived, pushed, opened, script>>

\* the variables of the pipeline
pipeVars == <<context, running, loops, shutdown, halted, call, queue>>

vars == <<flags, bound, context, running, loops, shutdown, halted, call, queue,
          ctx, init, arrived, pushed, opened, script>>

\* ----------------------------------------------------- role accessors
IsDistributed == flags.dist
IsRootDevice == flags.root
IsCrossPcieSwitch == flags.pcie
IsSignalRoot == flags.sig

\* ------------------------------------------------- itinerary builders
\* a mutant: the copy to the host is left out on a cross-PCIe-switch node
GetPushQueueList_NoPcieCopy(device) ==
    IF device # CPU_DEVICE_ID
    THEN (IF IsSignalRoot THEN <<"REDUCE">> ELSE <<"COORDINATE_REDUCE", "REDUCE">>)
         \o (IF IsDistributed THEN <<"COPYD2H">> ELSE <<>>)
         \o (IF IsCrossPcieSwitch THEN <<"PCIE_REDUCE">> ELSE <<>>)
         \o (IF IsDistributed
             THEN (IF IsRootDevice THEN <<"PUSH">> ELSE <<"COORDINATE_PUSH">>)
             ELSE <<>>)
    ELSE <<>>

\* a mutant: the device is not looked at
GetPushQueueList_IgnoreDevice(device) ==
    (IF IsSignalRoot THEN <<"REDUCE">> ELSE <<"COORDINATE_REDUCE", "REDUCE">>)
    \o (IF IsDistributed \/ IsCrossPcieSwitch THEN <<"COPYD2H">> ELSE <<>>)
    \o (IF IsCrossPcieSwitch THEN <<"PCIE_REDUCE">> ELSE <<>>)
    \o (IF IsDistributed
        THEN (IF IsRootDevice THEN <<"PUSH">> ELSE <<"COORDINATE_PUSH">>)
        ELSE <<>>)

GetPushQueueList(device) ==
    IF device # CPU_DEVICE_ID
    THEN (IF IsSignalRoot THEN <<"REDUCE">> ELSE <<"COORDINATE_REDUCE", "REDUCE">>)
         \o (IF IsDistributed \/ IsCrossPcieSwitch THEN <<"COPYD2H">> ELSE <<>>)
         \o (IF IsCrossPcieSwitch THEN <<"PCIE_REDUCE">> ELSE <<>>)
         \o (IF IsDistributed
             THEN (IF IsRootDevice THEN <<"PUSH">> ELSE <<"COORDINATE_PUSH">>)
             ELSE <<>>)
    ELSE <<>>

\* a mutant: the pull itinerary of a non-signal-root node coordinates through
\* the reduce stage
GetPullQueueList_CoordinateReduce(device) ==
    IF device # CPU_DEVICE_ID
    THEN (IF IsDistributed
          THEN (IF IsRootDevice THEN <<"PULL">> ELSE <<>>)
          ELSE <<>>)
         \o (IF IsDistributed \/ IsCrossPcieSwitch THEN <<"COPYH2D">> ELSE <<>>)
         \o (IF IsSignalRoot THEN <<"BROADCAST">>
                             ELSE <<"COORDINATE_REDUCE", "BROADCAST">>)
    ELSE <<>>

\* a mutant: PULL is appended on every distributed device, root or not
GetPullQueueList_PullEverywhere(device) ==
    IF device # CPU_DEVICE_ID
    THEN (IF IsDistributed THEN <<"PULL">> ELSE <<>>)
         \o (IF IsDistributed \/ IsCrossPcieSwitch THEN <<"COPYH2D">> ELSE <<>>)
         \o (IF IsSignalRoot THEN <<"BROADCAST">>
                             ELSE <<"COORDINATE_BROADCAST", "BROADCAST">>)
    ELSE <<>>

GetPullQueueList(device) ==
    IF device # CPU_DEVICE_ID
    THEN (IF IsDistributed
          THEN (IF IsRootDevice THEN <<"PULL">> ELSE <<>>)
          ELSE <<>>)
         \o (IF IsDistributed \/ IsCrossPcieSwitch THEN <<"COPYH2D">> ELSE <<>>)
         \o (IF IsSignalRoot THEN <<"BROADCAST">>
                             ELSE <<"COORDINATE_BROADCAST", "BROADCAST">>)
    ELSE <<>>

\* ------------------------------------------------------- byteps_init
\* a mutant: the push and pull loops are started on non-root devices too
LoopsToStart_PushOnNonRoot ==
    (IF IsDistributed THEN {"PushLoop", "PullLoop"} ELSE {})
    \cup (IF IsCrossPcieSwitch THEN {"PcieReduceLoop"} ELSE {})
    \cup (IF IsCrossPcieSwitch \/ IsDistributed
          THEN {"CopyDevice2HostLoop"}
               \cup (IF IsRootDevice
                     THEN {"RootCopyHost2DeviceLoop"}
                     ELSE {"NonRootCopyHost2DeviceLoop", "NonRootCopyListenLoop"})
          ELSE {})
    \cup {"SyncNcclLoop"}
    \cup (IF IsSignalRoot
          THEN {"RootNcclLoop"}
          ELSE {"CoordinateReduceLoop", "CoordinateBroadcastLoop", "NonRootNcclLoop"})

\* the vector func of byteps_init ("the order of func does not matter")
LoopsToStart ==
    (IF IsDistributed
     THEN (IF IsRootDevice THEN {"PushLoop", "PullLoop"} ELSE {"CoordinatePushLoop"})
     ELSE {})
    \cup (IF IsCrossPcieSwitch THEN {"PcieReduceLoop"} ELSE {})
    \cup (IF IsCrossPcieSwitch \/ IsDistributed
          THEN {"CopyDevice2HostLoop"}
               \cup (IF IsRootDevice
                     THEN {"RootCopyHost2DeviceLoop"}
                     ELSE {"NonRootCopyHost2DeviceLoop", "NonRootCopyListenLoop"})
          ELSE {})
    \cup {"SyncNcclLoop"}
    \cup (IF IsSignalRoot
          THEN {"RootNcclLoop"}
          ELSE {"CoordinateReduceLoop", "CoordinateBroadcastLoop", "NonRootNcclLoop"})

\* the stage queues a loop function drains (core_loops.cc; section 4.4)
LoopQueues(f) ==
    CASE f = "PushLoop" -> {"PUSH"}
      [] f = "PullLoop" -> {"PULL"}
      [] f = "CoordinatePushLoop" -> {"COORDINATE_PUSH"}
      [] f = "PcieReduceLoop" -> {"PCIE_REDUCE"}
      [] f = "CopyDevice2HostLoop" -> {"COPYD2H"}
      [] f = "RootCopyHost2DeviceLoop" -> {"COPYH2D"}
      [] f = "NonRootCopyHost2DeviceLoop" -> {"COPYH2D"}
      [] f = "RootNcclLoop" -> {"REDUCE", "BROADCAST"}
      [] f = "NonRootNcclLoop" -> {"REDUCE", "BROADCAST"}
      [] f = "CoordinateReduceLoop" -> {"COORDINATE_REDUCE"}
      [] f = "CoordinateBroadcastLoop" -> {"COORDINATE_BROADCAST"}
      [] OTHER -> {}

\* the stages that have a running worker
ActiveStages == UNION {LoopQueues(f) : f \in loops}

\* ---------------------------------------------------- context registry
CeilDiv(a, b) == (a + b - 1) \div b

\* the key list the registry gives a tensor of buff_len bytes (section 3)
KeyList(buff_len, b) == [i \in 1 .. CeilDiv(buff_len, b) |-> FirstKey + (i - 1)]

\* a host buffer: null, the caller's, or a shared-memory region
NoBuffer == [region |-> "null", key |-> NoKey, size |-> 0, switch |-> 0]
CallerBuffer == [region |-> "caller", key |-> NoKey, size |-> 0, switch |-> 0]

\* a registered, not yet initialized context
DeclareContext(buff_len, b) ==
    [key_list |-> KeyList(buff_len, b), buff_len |-> buff_len,
     cpubuff |-> NoBuffer, pcie_cpubuff |-> <<>>,
     reuse_buff |-> FALSE, initialized |-> FALSE]

\* ---------------------------------------------------- PartitionTensor
\* The while loop. accumulated is an int; offset and len are unsigned int;
\* size is the 64-bit tensor size. seen holds the values accumulated has had:
\* when one comes back the loop never ends.
RECURSIVE PartitionLoop(_, _, _, _, _)
PartitionLoop(size, b, accumulated, partitions, seen) ==
    IF ~(accumulated < size)
    THEN [partitions |-> partitions, terminates |-> TRUE]
    ELSE IF accumulated \in seen
    THEN [partitions |-> partitions, terminates |-> FALSE]
    ELSE LET len == ToUnsigned(IF (size - accumulated) > b
                               THEN b ELSE size - accumulated)
             e == [key |-> NoKey, offset |-> ToUnsigned(accumulated), len |-> len]
         IN PartitionLoop(size, b, ToInt(accumulated + len),
                          Append(partitions, e), seen \cup {accumulated})

PartitionTensor(size, b) == PartitionLoop(size, b, 0, <<>>, {})

\* ----------------------------------------------------- EnqueueTensor
IdleCall ==
    [pc |-> "idle", dir |-> "none", device |-> CPU_DEVICE_ID,
     input |-> NoTensor, output |-> NoTensor, queue_list |-> <<>>,
     partitions |-> <<>>, i |-> 0, accumulated |-> 0,
     counter |-> 0, total_partnum |-> 0,
     callbacks |-> 0, cb_thread |-> "none", finished |-> {},
     failed |-> "none"]

\* e->tensor ? e->tensor->size() : e->output->size()
TensorSize(input, output) ==
    IF input # NoTensor THEN SizeOf(input) ELSE SizeOf(output)

\* a mutant: the sizes of input and output are not compared
SizesMatch_Unchecked(input, output) == TRUE

\* if (input && output) BPS_CHECK_EQ(input->size(), output->size())
SizesMatch(input, output) ==
    (input # NoTensor /\ output # NoTensor) => SizeOf(input) = SizeOf(output)

\* a mutant: every partition is given the first key of the list
AssignKey_First(key_list, i) == key_list[1]

\* task->key = context.key_list[i]
AssignKey(key_list, i) == key_list[i]

\* the task partitions[i] as it is handed to the head stage's queue
TaskOf(c, i) ==
    [call |-> c, idx |-> i,
     key |-> AssignKey(context.key_list, i),
     offset |-> call[c].partitions[i].offset,
     len |-> call[c].partitions[i].len,
     queue_list |-> call[c].queue_list]

\* a mutant: the target counts one partition too many
TotalPartnum_OffByOne(key_list) == Len(key_list) + 1

\* e->total_partnum = context.key_list.size()
TotalPartnum(key_list) == Len(key_list)

\* a mutant: fewer partitions than keys are let through
CountMatches_AtMost(key_list, partitions) == Len(partitions) <= Len(key_list)

\* BPS_CHECK_EQ(context.key_list.size(), partitions.size())
CountMatches(key_list, partitions) == Len(key_list) = Len(partitions)

\* a mutant: the task is handed to the last stage of its itinerary
HeadStage_Last(queue_list) == queue_list[Len(queue_list)]

\* BytePSGlobal::GetScheduledQueue(e->queue_list[0])
HeadStage(queue_list) == queue_list[1]

\* A BPS_CHECK fails: the process is terminated.
Abort(c, check) ==
    /\ halted' = TRUE
    /\ call' = [call EXCEPT ![c].pc = "aborted", ![c].failed = check]
    /\ UNCHANGED queue

\* The call up to the first addTask: the size check, the parent entry, the
\* partitioning, the count check and the short-circuit of an empty queue_list.
EnqueueBegin(c, dir, device, input, output) ==
    /\ running /\ ~halted
    /\ call[c].pc = "idle"
    /\ \A d \in Calls : d < c => call[d].pc # "idle"
    /\ LET ql == IF dir = "push" THEN GetPushQueueList(device)
                                 ELSE GetPullQueueList(device)
           size == TensorSize(input, output)
           p == PartitionTensor(size, bound)
           e == [call[c] EXCEPT !.dir = dir, !.device = device,
                                !.input = input, !.output = output,
                                !.queue_list = ql,
                                !.counter = 0,
                                !.total_partnum = TotalPartnum(context.key_list)]
       IN IF ~SizesMatch(input, output)
          THEN /\ halted' = TRUE
               /\ call' = [call EXCEPT ![c] =
                              [e EXCEPT !.pc = "aborted", !.failed = "size"]]
               /\ UNCHANGED queue
          ELSE IF ~p.terminates
          THEN /\ call' = [call EXCEPT ![c] =
                              [e EXCEPT !.pc = "spinning",
                                        !.partitions = p.partitions]]
               /\ UNCHANGED <<halted, queue>>
          ELSE IF ~CountMatches(context.key_list, p.partitions)
          THEN /\ halted' = TRUE
               /\ call' = [call EXCEPT ![c] =
                              [e EXCEPT !.pc = "aborted", !.failed = "count",
                                        !.partitions = p.partitions]]
               /\ UNCHANGED queue
          ELSE IF Len(ql) = 0
          THEN /\ call' = [call EXCEPT ![c] =
                              [e EXCEPT !.pc = "returned",
                                        !.partitions = p.partitions,
                                        !.callbacks = @ + 1,
                                        !.cb_thread = "caller"]]
               /\ UNCHANGED <<halted, queue>>
          ELSE /\ call' = [call EXCEPT ![c] =
                              [e EXCEPT !.pc = "adding",
                                        !.partitions = p.partitions,
                                        !.i = 1, !.accumulated = 0]]
               /\ UNCHANGED <<halted, queue>>
    /\ UNCHANGED <<flags, bound, context, running, loops, shutdown>>
    /\ UNCHANGED protoVars

\* One turn of the for loop: the key is assigned and the task is added.
EnqueueAdd(c) ==
    /\ ~halted
    /\ call[c].pc = "adding"
    /\ call[c].i <= Len(call[c].partitions)
    /\ LET t == TaskOf(c, call[c].i)
       IN /\ queue' = [queue EXCEPT ![HeadStage(call[c].queue_list)] = @ \cup {t}]
          /\ call' = [call EXCEPT ![c].i = @ + 1,
                                  ![c].accumulated = ToUnsigned(@ + t.len)]
    /\ UNCHANGED <<flags, bound, context, running, loops, shutdown, halted>>
    /\ UNCHANGED protoVars

\* After the loop: the accumulated length is checked and OK is returned.
EnqueueReturn(c) ==
    /\ ~halted
    /\ call[c].pc = "adding"
    /\ call[c].i > Len(call[c].partitions)
    /\ IF call[c].accumulated = TensorSize(call[c].input, call[c].output)
       THEN /\ call' = [call EXCEPT ![c].pc = "returned"]
            /\ UNCHANGED <<halted, queue>>
       ELSE Abort(c, "sum")
    /\ UNCHANGED <<flags, bound, context, running, loops, shutdown>>
    /\ UNCHANGED protoVars

\* --------------------------------------------------------- stage loops
\* A stage has finished a task: the head of its queue_list is popped and the
\* task goes to the next stage's queue, or, after the last stage, the shared
\* counter is incremented and the increment that reaches total_partnum
\* invokes the callback (section 4.3).
FinishOrProceed(q, t) ==
    LET rest == Tail(t.queue_list)
        c == t.call
    IN IF Len(rest) > 0
       THEN /\ queue' = [x \in QueueTypes |->
                            IF x = rest[1]
                            THEN (queue[x] \ {t}) \cup {[t EXCEPT !.queue_list = rest]}
                            ELSE queue[x] \ {t}]
            /\ UNCHANGED call
       ELSE /\ queue' = [queue EXCEPT ![q] = @ \ {t}]
            /\ call' = [call EXCEPT
                           ![c].counter = @ + 1,
                           ![c].finished = @ \cup {t.idx},
                           ![c].callbacks =
                               IF call[c].counter + 1 = call[c].total_partnum
                               THEN @ + 1 ELSE @,
                           ![c].cb_thread =
                               IF call[c].counter + 1 = call[c].total_partnum
                               THEN q ELSE @]

\* The worker of stage q takes a ready task, drives the stage and passes it on.
StageStep(q) ==
    /\ running /\ ~shutdown /\ ~halted
    /\ q \in ActiveStages
    /\ \E t \in queue[q] : FinishOrProceed(q, t)
    /\ UNCHANGED <<flags, bound, context, running, loops, shutdown, halted>>
    /\ UNCHANGED protoVars

\* ------------------------------------------------- init and shutdown
byteps_init ==
    /\ ~running
    /\ loops' = LoopsToStart
    /\ running' = TRUE
    /\ UNCHANGED <<flags, bound, context, shutdown, halted, call, queue>>
    /\ UNCHANGED protoVars

byteps_shutdown ==
    /\ running /\ ~shutdown /\ ~halted
    /\ shutdown' = TRUE
    /\ UNCHANGED <<flags, bound, context, running, loops, halted, call, queue>>
    /\ UNCHANGED protoVars

\* -------------------------------------------------------- InitTensor
\* The processes: process p < NumWorkers is the root device of worker p; the
\* last process is a non-root device of worker 0. A job that is not
\* distributed has worker 0 alone; of a distributed job the root devices are
\* followed.
Procs == 0 .. NumWorkers
IsRootDeviceAt(p) == p < NumWorkers
GetWorkerID(p) == IF p < NumWorkers THEN p ELSE 0
JobProcs ==
    IF IsDistributed THEN {p \in Procs : IsRootDeviceAt(p)}
                     ELSE {p \in Procs : GetWorkerID(p) = 0}

\* the members of ps::kWorkerGroup
WorkerGroup == {p \in JobProcs : IsRootDeviceAt(p)}

\* shm_obj->openSharedMemory(key, size)
openSharedMemory(key, size) ==
    [region |-> "shm", key |-> key, size |-> size, switch |-> 0]

\* shm_obj->openPcieSharedMemory(key, size): one buffer per PCIe switch
openPcieSharedMemory(key, size) ==
    [k \in 1 .. NumSwitches |->
        [region |-> "pcie_shm", key |-> key, size |-> size, switch |-> k]]

IdleInit ==
    [pc |-> "idle", i |-> 0, accumulated |-> 0,
     calls |-> 0, passed |-> 0, callbacks |-> 0, failed |-> "none"]

\* (unsigned int) (size+bound-1)/bound: the cast applies to the sum
RoundUpParts(size, b) == ToUnsigned(ToSizeT(size + b - 1)) \div b

\* int len = ((size - accumulated) > bound) ? bound : (size - accumulated)
InitLen(size, accumulated, b) ==
    ToInt(IF ToSizeT(size - accumulated) > b THEN b ELSE ToSizeT(size - accumulated))

\* auto key = key_list[i]; reading past the end of the vector is undefined
InitKeys(key_list, i) ==
    IF i < Len(key_list) THEN {key_list[i + 1]}
    ELSE {NoKey} \cup {FirstKey + k : k \in 0 .. Word}

\* a mutant: only worker 0 takes the push-and-barrier branch
InitSyncs_Worker0Only(p) == IsDistributed /\ IsRootDeviceAt(p) /\ GetWorkerID(p) = 0

\* a mutant: every worker pushes the init data
IsInitPusher_Everyone(p) == TRUE

\* only worker 0 pushes the init data
IsInitPusher(p) == GetWorkerID(p) = 0

\* the push and the barrier are for distributed root devices
InitSyncs(p) == IsDistributed /\ IsRootDeviceAt(p)

\* The call up to the while loop: the entry checks and the host buffer. Every
\* process runs the same script, so the n-th call gets the same kind of
\* cpubuff argument in each of them.
InitBegin(p, cpubuff) ==
    /\ p \in JobProcs
    /\ init[p].pc = "idle"
    /\ init[p].calls < MaxInits
    /\ cpubuff = script[init[p].calls + 1]
    /\ LET key_list == ctx[p].key_list
           size == ctx[p].buff_len
       IN IF ~(Len(key_list) > 0)
          THEN /\ init' = [init EXCEPT ![p].pc = "aborted",
                                       ![p].failed = "no_keys"]
               /\ UNCHANGED <<ctx, opened>>
          ELSE IF Len(key_list) # RoundUpParts(size, bound)
          THEN /\ init' = [init EXCEPT ![p].pc = "aborted",
                                       ![p].failed = "parts"]
               /\ UNCHANGED <<ctx, opened>>
          ELSE /\ init' = [init EXCEPT ![p].pc = "loop",
                                       ![p].i = 0, ![p].accumulated = 0,
                                       ![p].passed = 0, ![p].callbacks = 0]
               /\ IF cpubuff # NoBuffer
                  THEN /\ ctx' = [ctx EXCEPT ![p].cpubuff = cpubuff,
                                             ![p].reuse_buff = TRUE]
                       /\ UNCHANGED opened
                  ELSE /\ ctx' = [ctx EXCEPT
                              ![p].pcie_cpubuff =
                                  IF IsCrossPcieSwitch
                                  THEN openPcieSharedMemory(key_list[1], size)
                                  ELSE @,
                              ![p].cpubuff =
                                  IF IsCrossPcieSwitch
                                  THEN openPcieSharedMemory(key_list[1], size)[NumSwitches]
                                  ELSE openSharedMemory(key_list[1], size),
                              ![p].reuse_buff = FALSE]
                       /\ opened' = [opened EXCEPT ![p] = @ + 1]
    /\ UNCHANGED <<arrived, pushed>>
    /\ UNCHANGED <<flags, bound, script>>
    /\ UNCHANGED pipeVars

\* the while condition holds for process p
InLoop(p) == init[p].pc = "loop" /\ init[p].accumulated < ctx[p].buff_len

\* accumulated += len; ++i
Advance(r, size, b) ==
    [r EXCEPT !.pc = "loop",
              !.accumulated = ToSizeT(@ + InitLen(size, r.accumulated, b)),
              !.i = @ + 1]

\* Worker 0's blocking push of the partition: ZPush and Wait.
InitPush(p) ==
    /\ InLoop(p)
    /\ InitSyncs(p) /\ IsInitPusher(p)
    /\ \E key \in InitKeys(ctx[p].key_list, init[p].i) :
           pushed' = Append(pushed,
                            [by |-> p, key |-> key,
                             offset |-> init[p].accumulated,
                             len |-> InitLen(ctx[p].buff_len, init[p].accumulated, bound)])
    /\ init' = [init EXCEPT ![p].pc = "barrier"]
    /\ UNCHANGED <<ctx, arrived, opened>>
    /\ UNCHANGED <<flags, bound, script>>
    /\ UNCHANGED pipeVars

\* ps::Postoffice::Get()->Barrier(0, ps::kWorkerGroup): the process waits
InitBarrierEnter(p) ==
    /\ \/ init[p].pc = "barrier"
       \/ InLoop(p) /\ InitSyncs(p) /\ ~IsInitPusher(p)
    /\ arrived' = arrived \cup {p}
    /\ init' = [init EXCEPT ![p].pc = "waiting"]
    /\ UNCHANGED <<ctx, pushed, opened>>
    /\ UNCHANGED <<flags, bound, script>>
    /\ UNCHANGED pipeVars

\* every member of the worker group has entered the barrier: all go on
BarrierRelease ==
    /\ WorkerGroup \subseteq arrived
    /\ arrived' = {}
    /\ init' = [p \in Procs |->
                   IF p \in arrived
                   THEN [Advance(init[p], ctx[p].buff_len, bound)
                            EXCEPT !.passed = @ + 1]
                   ELSE init[p]]
    /\ UNCHANGED <<ctx, pushed, opened>>
    /\ UNCHANGED <<flags, bound, script>>
    /\ UNCHANGED pipeVars

\* a turn of the loop on a process that neither pushes nor waits
InitSkip(p) ==
    /\ InLoop(p)
    /\ ~InitSyncs(p)
    /\ init' = [init EXCEPT ![p] = Advance(init[p], ctx[p].buff_len, bound)]
    /\ UNCHANGED <<ctx, arrived, pushed, opened>>
    /\ UNCHANGED <<flags, bound, script>>
    /\ UNCHANGED pipeVars

\* After the loop: the two checks and initialized = true; when the call was
\* made through EnqueueTensorInit the callback follows InitTensor's return.
InitFinish(p, api) ==
    /\ init[p].pc = "loop"
    /\ ~(init[p].accumulated < ctx[p].buff_len)
    /\ IF init[p].accumulated # ctx[p].buff_len
       THEN /\ init' = [init EXCEPT ![p].pc = "aborted", ![p].failed = "accumulated"]
            /\ UNCHANGED ctx
       ELSE IF init[p].i # Len(ctx[p].key_list)
       THEN /\ init' = [init EXCEPT ![p].pc = "aborted", ![p].failed = "i"]
            /\ UNCHANGED ctx
       ELSE /\ ctx' = [ctx EXCEPT ![p].initialized = TRUE]
            /\ init' = [init EXCEPT
                           ![p].pc = "idle",
                           ![p].calls = @ + 1,
                           ![p].callbacks =
                               IF api = "EnqueueTensorInit" THEN @ + 1 ELSE @]
    /\ UNCHANGED <<arrived, pushed, opened>>
    /\ UNCHANGED <<flags, bound, script>>
    /\ UNCHANGED pipeVars

\* ------------------------------------------------------ specification
EnqueueInputs ==
    {a \in [dir : {"push", "pull"}, device : Devices,
            input : Tensors \cup {NoTensor},
            output : Tensors \cup {NoTensor}] :
        a.input # NoTensor \/ a.output # NoTensor}

Init ==
    /\ flags \in RoleFlags
    /\ bound \in Bounds
    /\ \E n \in TensorSizes : context = DeclareContext(n, bound)
    /\ running = FALSE
    /\ loops = {}
    /\ shutdown = FALSE
    /\ halted = FALSE
    /\ call = [c \in Calls |-> IdleCall]
    /\ queue = [q \in QueueTypes |-> {}]
    /\ ctx = [p \in Procs |-> DeclareContext(0, bound)]
    /\ init = [p \in Procs |-> IdleInit]
    /\ arrived = {}
    /\ pushed = <<>>
    /\ opened = [p \in Procs |-> 0]
    /\ script = [n \in 1 .. MaxInits |-> NoBuffer]

Next ==
    \/ byteps_init
    \/ byteps_shutdown
    \/ \E c \in Calls, a \in EnqueueInputs :
           EnqueueBegin(c, a.dir, a.device, a.input, a.output)
    \/ \E c \in Calls : EnqueueAdd(c)
    \/ \E c \in Calls : EnqueueReturn(c)
    \/ \E q \in QueueTypes : StageStep(q)

Spec == Init /\ [][Next]_vars

\* the init protocol: every process holds the context of the same tensor
InitSizes == (0 .. MaxSize) \cup {Word, Word + 1}

InitApis == {"InitTensor", "EnqueueTensorInit"}

ProtoInit ==
    /\ flags \in {f \in RoleFlags : f.root /\ f.sig}
    /\ bound \in Bounds
    /\ \E n \in InitSizes : ctx = [p \in Procs |-> DeclareContext(n, bound)]
    /\ init = [p \in Procs |-> IdleInit]
    /\ arrived = {}
    /\ pushed = <<>>
    /\ opened = [p \in Procs |-> 0]
    /\ script \in [1 .. MaxInits -> {NoBuffer, CallerBuffer}]
    /\ context = DeclareContext(0, bound)
    /\ running = FALSE
    /\ loops = {}
    /\ shutdown = FALSE
    /\ halted = FALSE
    /\ call = [c \in Calls |-> IdleCall]
    /\ queue = [q \in QueueTypes |-> {}]

ProtoNext ==
    \/ \E p \in Procs, cpubuff \in {NoBuffer, CallerBuffer} : InitBegin(p, cpubuff)
    \/ \E p \in Procs : InitPush(p)
    \/ \E p \in Procs : InitBarrierEnter(p)
    \/ BarrierRelease
    \/ \E p \in Procs : InitSkip(p)
    \/ \E p \in Procs, api \in InitApis : InitFinish(p, api)

ProtoSpec == ProtoInit /\ [][ProtoNext]_vars

\* the stage workers are dedicated threads and the producer runs on: each
\* keeps taking its steps while it can
LiveSpec ==
    /\ Spec
    /\ \A q \in QueueTypes : WF_vars(StageStep(q))
    /\ \A c \in Calls : WF_vars(EnqueueAdd(c))
    /\ \A c \in Calls : WF_vars(EnqueueReturn(c))

\* the init protocol when every process of the job makes its calls and keeps
\* running: a blocking push returns, and the barrier lets its members go once
\* all of them have entered it
ProtoLiveSpec ==
    /\ ProtoSpec
    /\ \A p \in Procs :
           /\ WF_vars(\E cpubuff \in {NoBuffer, CallerBuffer} : InitBegin(p, cpubuff))
           /\ WF_vars(InitPush(p))
           /\ WF_vars(InitBarrierEnter(p))
           /\ WF_vars(InitSkip(p))
           /\ WF_vars(\E api \in InitApis : InitFinish(p, api))
    /\ WF_vars(BarrierRelease)

\* ------------------------------------------------------------- claims
\* the tasks of call c that some stage queue holds
InFlight(c) == {t \in UNION {queue[q] : q \in QueueTypes} : t.call = c}

Siblings(c) == 1 .. Len(call[c].partitions)

FlagTuple == <<flags.dist, flags.root, flags.pcie, flags.sig>>

Range(seq) == {seq[k] : k \in 1 .. Len(seq)}

Min(a, b) == IF a < b THEN a ELSE b

\* C1: for every EnqueueTensor call that returns OK the callback is invoked
\* exactly once, and never before every sibling partition has left the last
\* stage of its itinerary: the callback is never invoked twice, a worker's
\* invocation finds every sibling finished and none in a queue, and a call
\* that has returned OK and has nothing left in flight has had its callback.
C1_CallbackExactlyOnce ==
    \A c \in Calls :
        /\ call[c].callbacks <= 1
        /\ (call[c].callbacks = 1 /\ call[c].queue_list # <<>>)
               => (call[c].finished = Siblings(c) /\ InFlight(c) = {})
        /\ (call[c].pc = "returned" /\ InFlight(c) = {})
               => call[c].callbacks = 1

\* the windows the claim lists for a tensor of size bytes and a bound b
ClaimedWindows(size, b) ==
    [k \in 1 .. CeilDiv(size, b) |->
        [offset |-> (k - 1) * b, len |-> Min(b, size - (k - 1) * b)]]

Window(e) == {x \in 0 .. MaxSize + Word : e.offset <= x /\ x < e.offset + e.len}

RECURSIVE SumLen(_)
SumLen(partitions) ==
    IF partitions = <<>> THEN 0
    ELSE partitions[1].len + SumLen(Tail(partitions))

\* PartitionTensor has run in call c
Partitioned(c) ==
    call[c].pc \in {"spinning", "adding", "returned"}
    \/ (call[c].pc = "aborted" /\ call[c].failed # "size")

\* C2: for every tensor byte size S and bound B, PartitionTensor emits exactly
\* ceil(S/B) partitions, the i-th with offset i*B and len min(B, S - i*B); the
\* lens sum to S, none exceeds B, and the windows are pairwise disjoint and
\* cover [0, S).
C2_PartitionWindows ==
    \A c \in Calls :
        Partitioned(c) =>
            LET size == TensorSize(call[c].input, call[c].output)
                parts == call[c].partitions
            IN /\ Len(parts) = CeilDiv(size, bound)
               /\ \A k \in 1 .. Len(parts) :
                      /\ parts[k].offset = ClaimedWindows(size, bound)[k].offset
                      /\ parts[k].len = ClaimedWindows(size, bound)[k].len
                      /\ parts[k].len <= bound
               /\ SumLen(parts) = size
               /\ \A k, m \in 1 .. Len(parts) :
                      k # m => Window(parts[k]) \cap Window(parts[m]) = {}
               /\ UNION {Window(parts[k]) : k \in 1 .. Len(parts)} = 0 .. size - 1

\* C3: every task in a stage queue carries key = context.key_list[i], i being
\* the index of its partition (offset = i*B): never an unassigned key, never a
\* sibling's.
C3_KeyAssignment ==
    \A q \in QueueTypes : \A t \in queue[q] :
        /\ t.key # NoKey
        /\ t.offset = (t.idx - 1) * bound
        /\ (t.offset \div bound) + 1 \in 1 .. Len(context.key_list)
        /\ t.key = context.key_list[(t.offset \div bound) + 1]
        /\ \A u \in InFlight(t.call) : u.idx # t.idx => u.key # t.key

C3_Witness ==
    \E q \in QueueTypes : \E t \in queue[q] :
        t.idx = 2 /\ t.key = context.key_list[2] /\ t.queue_list # call[t.call].queue_list

\* the sequence the claim gives for the flags <<distributed, root device,
\* cross-PCIe-switch, signal root>>
PushTable ==
    (<<FALSE, FALSE, FALSE, FALSE>> :> <<"COORDINATE_REDUCE", "REDUCE">>)
 @@ (<<FALSE, FALSE, FALSE, TRUE>> :> <<"REDUCE">>)
 @@ (<<FALSE, FALSE, TRUE, FALSE>> :>
        <<"COORDINATE_REDUCE", "REDUCE", "COPYD2H", "PCIE_REDUCE">>)
 @@ (<<FALSE, FALSE, TRUE, TRUE>> :> <<"REDUCE", "COPYD2H", "PCIE_REDUCE">>)
 @@ (<<FALSE, TRUE, FALSE, FALSE>> :> <<"COORDINATE_REDUCE", "REDUCE">>)
 @@ (<<FALSE, TRUE, FALSE, TRUE>> :> <<"REDUCE">>)
 @@ (<<FALSE, TRUE, TRUE, FALSE>> :>
        <<"COORDINATE_REDUCE", "REDUCE", "COPYD2H", "PCIE_REDUCE">>)
 @@ (<<FALSE, TRUE, TRUE, TRUE>> :> <<"REDUCE", "COPYD2H", "PCIE_REDUCE">>)
 @@ (<<TRUE, FALSE, FALSE, FALSE>> :>
        <<"COORDINATE_REDUCE", "REDUCE", "COPYD2H", "COORDINATE_PUSH">>)
 @@ (<<TRUE, FALSE, FALSE, TRUE>> :> <<"REDUCE", "COPYD2H", "COORDINATE_PUSH">>)
 @@ (<<TRUE, FALSE, TRUE, FALSE>> :>
        <<"COORDINATE_REDUCE", "REDUCE", "COPYD2H", "PCIE_REDUCE", "COORDINATE_PUSH">>)
 @@ (<<TRUE, FALSE, TRUE, TRUE>> :>
        <<"REDUCE", "COPYD2H", "PCIE_REDUCE", "COORDINATE_PUSH">>)
 @@ (<<TRUE, TRUE, FALSE, FALSE>> :>
        <<"COORDINATE_REDUCE", "REDUCE", "COPYD2H", "PUSH">>)
 @@ (<<TRUE, TRUE, FALSE, TRUE>> :> <<"REDUCE", "COPYD2H", "PUSH">>)
 @@ (<<TRUE, TRUE, TRUE, FALSE>> :>
        <<"COORDINATE_REDUCE", "REDUCE", "COPYD2H", "PCIE_REDUCE", "PUSH">>)
 @@ (<<TRUE, TRUE, TRUE, TRUE>> :> <<"REDUCE", "COPYD2H", "PCIE_REDUCE", "PUSH">>)

\* C4: on a non-CPU device GetPushQueueList returns, for each of the 16 flag
\* combinations, the sequence of PushTable; nothing else in the state has a say.
C4_PushItinerary ==
    \A c \in Calls :
        (call[c].pc # "idle" /\ call[c].dir = "push" /\ call[c].device # CPU_DEVICE_ID)
            => call[c].queue_list = PushTable[FlagTuple]

C4_Witness ==
    \E c \in Calls :
        /\ call[c].pc = "returned" /\ call[c].dir = "push"
        /\ call[c].device # CPU_DEVICE_ID
        /\ FlagTuple = <<FALSE, FALSE, TRUE, FALSE>>
        /\ call[c].queue_list = <<"COORDINATE_REDUCE", "REDUCE", "COPYD2H", "PCIE_REDUCE">>

PullTable ==
    (<<FALSE, FALSE, FALSE, FALSE>> :> <<"COORDINATE_BROADCAST", "BROADCAST">>)
 @@ (<<FALSE, FALSE, FALSE, TRUE>> :> <<"BROADCAST">>)
 @@ (<<FALSE, FALSE, TRUE, FALSE>> :> <<"COPYH2D", "COORDINATE_BROADCAST", "BROADCAST">>)
 @@ (<<FALSE, FALSE, TRUE, TRUE>> :> <<"COPYH2D", "BROADCAST">>)
 @@ (<<FALSE, TRUE, FALSE, FALSE>> :> <<"COORDINATE_BROADCAST", "BROADCAST">>)
 @@ (<<FALSE, TRUE, FALSE, TRUE>> :> <<"BROADCAST">>)
 @@ (<<FALSE, TRUE, TRUE, FALSE>> :> <<"COPYH2D", "COORDINATE_BROADCAST", "BROADCAST">>)
 @@ (<<FALSE, TRUE, TRUE, TRUE>> :> <<"COPYH2D", "BROADCAST">>)
 @@ (<<TRUE, FALSE, FALSE, FALSE>> :> <<"COPYH2D", "COORDINATE_BROADCAST", "BROADCAST">>)
 @@ (<<TRUE, FALSE, FALSE, TRUE>> :> <<"COPYH2D", "BROADCAST">>)
 @@ (<<TRUE, FALSE, TRUE, FALSE>> :> <<"COPYH2D", "COORDINATE_BROADCAST", "BROADCAST">>)
 @@ (<<TRUE, FALSE, TRUE, TRUE>> :> <<"COPYH2D", "BROADCAST">>)
 @@ (<<TRUE, TRUE, FALSE, FALSE>> :>
        <<"PULL", "COPYH2D", "COORDINATE_BROADCAST", "BROADCAST">>)
 @@ (<<TRUE, TRUE, FALSE, TRUE>> :> <<"PULL", "COPYH2D", "BROADCAST">>)
 @@ (<<TRUE, TRUE, TRUE, FALSE>> :>
        <<"PULL", "COPYH2D", "COORDINATE_BROADCAST", "BROADCAST">>)
 @@ (<<TRUE, TRUE, TRUE, TRUE>> :> <<"PULL", "COPYH2D", "BROADCAST">>)

\* C5: on a non-CPU device GetPullQueueList returns, for each of the 16 flag
\* combinations, the sequence of PullTable; nothing else in the state has a say.
C5_PullItinerary ==
    \A c \in Calls :
        (call[c].pc # "idle" /\ call[c].dir = "pull" /\ call[c].device # CPU_DEVICE_ID)
            => call[c].queue_list = PullTable[FlagTuple]

C5_Witness ==
    \E c \in Calls :
        /\ call[c].pc = "returned" /\ call[c].dir = "pull"
        /\ call[c].device # CPU_DEVICE_ID
        /\ FlagTuple = <<TRUE, FALSE, FALSE, TRUE>>
        /\ call[c].queue_list = <<"COPYH2D", "BROADCAST">>

\* C6: for the CPU device both builders return the empty itinerary under
\* every flag combination, and an EnqueueTensor call with it adds no task to
\* any queue and has, when it returns OK, invoked the callback once on the
\* caller's thread.
C6_CpuShortCircuit ==
    \A c \in Calls :
        (call[c].pc # "idle" /\ call[c].device = CPU_DEVICE_ID)
            => /\ call[c].queue_list = <<>>
               /\ InFlight(c) = {}
               /\ call[c].finished = {}
               /\ call[c].pc # "adding"
               /\ call[c].pc = "returned"
                      => (call[c].callbacks = 1 /\ call[c].cb_thread = "caller")

C6_Witness ==
    \E c \in Calls :
        /\ call[c].pc = "returned" /\ call[c].device = CPU_DEVICE_ID
        /\ call[c].callbacks = 1 /\ Len(call[c].partitions) = 2
        /\ flags.dist /\ flags.pcie

\* the stages an itinerary built under the current flags can contain
ItineraryStages ==
    UNION {Range(GetPushQueueList(d)) \cup Range(GetPullQueueList(d)) : d \in Devices}

\* C7: the stages for which byteps_init starts a worker are exactly the
\* stages the push and pull itineraries built under the same flags contain.
C7_WorkersMatchItineraries ==
    running => ActiveStages = ItineraryStages

C7_Witness ==
    /\ running /\ flags.dist /\ ~flags.root /\ ~flags.sig
    /\ "COORDINATE_PUSH" \in ActiveStages /\ "PUSH" \notin ActiveStages
    /\ "COORDINATE_REDUCE" \in ActiveStages

\* C8: under fairness of the stage workers every EnqueueTensor call that
\* has returned OK is eventually followed by its callback, unless the
\* framework is shut down.
C8_CallbackEventually ==
    \A c \in Calls :
        (call[c].pc = "returned" /\ ~shutdown) ~> (call[c].callbacks >= 1 \/ shutdown)

\* the pushes process p has made, in order
PushesBy(p) == SelectSeq(pushed, LAMBDA e : e.by = p)

\* the push the claim expects of process p for the k-th partition (k from 1)
ClaimedPush(p, k) ==
    [by |-> p, key |-> ctx[p].key_list[k],
     offset |-> (k - 1) * bound,
     len |-> Min(bound, ctx[p].buff_len - (k - 1) * bound)]

\* C9: on the distributed root devices worker 0 has completed the push of
\* partition i (its key and byte window) when it enters the i-th barrier of a
\* call, no other worker pushes, initialized is set only by a call that has
\* passed |key_list| barriers, and when InitTensor has returned on any worker,
\* worker 0 has pushed every partition.
C9_InitPushBeforeBarrier ==
    IsDistributed =>
        /\ \A p \in WorkerGroup :
               (GetWorkerID(p) = 0 /\ init[p].pc \in {"barrier", "waiting"})
                   => LET n == init[p].calls * Len(ctx[p].key_list) + init[p].i + 1
                      IN /\ Len(PushesBy(p)) = n
                         /\ PushesBy(p)[n] = ClaimedPush(p, init[p].i + 1)
        /\ \A n \in 1 .. Len(pushed) : GetWorkerID(pushed[n].by) = 0
        /\ \A p \in WorkerGroup :
               /\ ctx[p].initialized <=> init[p].calls >= 1
               /\ (init[p].pc = "idle" /\ init[p].calls >= 1)
                      => init[p].passed = Len(ctx[p].key_list)
               /\ init[p].passed <= init[p].i
        /\ \A p \in WorkerGroup : \A k \in 1 .. Len(ctx[p].key_list) :
               init[p].calls >= 1
                   => \E n \in 1 .. Len(pushed) :
                          /\ GetWorkerID(pushed[n].by) = 0
                          /\ pushed[n] = ClaimedPush(pushed[n].by, k)

C9_Witness ==
    /\ IsDistributed
    /\ \E p \in WorkerGroup :
           /\ GetWorkerID(p) # 0
           /\ init[p].calls = 1 /\ ctx[p].initialized
           /\ Len(ctx[p].key_list) = 3
    /\ Len(pushed) = 3

\* C10: a second InitTensor (or EnqueueTensorInit) on a context whose
\* initialized flag is true is a no-op: from then on the process pushes
\* nothing, enters no barrier, opens no shared memory and leaves the context
\* as it is.
C10_SecondInitNoOp ==
    [][\A p \in Procs :
          ctx[p].initialized =>
              /\ ctx'[p] = ctx[p]
              /\ opened'[p] = opened[p]
              /\ (Len(pushed') > Len(pushed) => pushed'[Len(pushed')].by # p)
              /\ (p \in arrived' => p \in arrived)]_vars

\* C11: once a context's initialized flag is true it never becomes false
\* again, and its key_list, buff_len and cpubuff never change, whatever
\* InitTensor and EnqueueTensorInit calls follow on that context.
C11_InitializedContextFrozen ==
    [][\A p \in Procs :
          ctx[p].initialized =>
              /\ ctx'[p].initialized
              /\ ctx'[p].key_list = ctx[p].key_list
              /\ ctx'[p].buff_len = ctx[p].buff_len
              /\ ctx'[p].cpubuff = ctx[p].cpubuff]_vars

\* C12: an EnqueueTensor call with both input and output present and of
\* different sizes fails the size check: the process is terminated, no
\* partition has been made or added to any stage queue and the callback has
\* not been invoked.
C12_SizeMismatchFails ==
    \A c \in Calls :
        (/\ call[c].pc # "idle"
         /\ call[c].input # NoTensor /\ call[c].output # NoTensor
         /\ SizeOf(call[c].input) # SizeOf(call[c].output))
            => /\ call[c].pc = "aborted" /\ call[c].failed = "size"
               /\ halted
               /\ call[c].partitions = <<>>
               /\ InFlight(c) = {}
               /\ \A q \in QueueTypes : queue[q] = {}
               /\ call[c].callbacks = 0 /\ call[c].cb_thread = "none"

C12_Witness ==
    \E c \in Calls :
        /\ call[c].failed = "size" /\ halted
        /\ call[c].device # CPU_DEVICE_ID
        /\ SizeOf(call[c].input) = 1 /\ SizeOf(call[c].output) = 2

\* C13: once shutdown has been signaled no callback is invoked any more:
\* neither by an EnqueueTensor call made after it, whatever its itinerary,
\* nor by a partition that is still in flight.
C13_NoCallbackAfterShutdown ==
    [][shutdown => \A c \in Calls : call'[c].callbacks = call[c].callbacks]_vars

\* the place of partition i of call c on its itinerary: 0 before it is
\* added, k while the queue of the k-th stage holds it, one more than the
\* length of the itinerary when it has left the last stage
Place(c, i) ==
    IF i \in call[c].finished THEN Len(call[c].queue_list) + 1
    ELSE IF \E t \in InFlight(c) : t.idx = i
    THEN LET t == CHOOSE u \in InFlight(c) : u.idx = i
         IN Len(call[c].queue_list) - Len(t.queue_list) + 1
    ELSE 0

\* every task is in the queue of the stage its remaining itinerary begins
\* with, the remaining itinerary is a tail of the itinerary the call was made
\* with, which names no stage twice, and no partition is in two places
OnItinerary ==
    \A q \in QueueTypes : \A t \in queue[q] :
        LET ql == call[t.call].queue_list
            k == Len(ql) - Len(t.queue_list) + 1
        IN /\ t.queue_list # <<>>
           /\ k \in 1 .. Len(ql)
           /\ t.queue_list = SubSeq(ql, k, Len(ql))
           /\ q = ql[k]
           /\ \A a, b \in 1 .. Len(ql) : a # b => ql[a] # ql[b]
           /\ \A r \in QueueTypes : \A u \in queue[r] :
                  (u.call = t.call /\ u.idx = t.idx) => (u = t /\ r = q)
           /\ t.idx \notin call[t.call].finished

\* C14: every partition visits the stages of its itinerary strictly in
\* itinerary order, starting at queue_list[0]: each step leaves it where it is
\* or moves it to the next place, it is never in the queue of a stage other
\* than the one its place names, and it leaves after the last stage.
C14_ItineraryOrder ==
    [][/\ OnItinerary'
       /\ \A c \in Calls : \A i \in Siblings(c)' :
              Place(c, i)' \in {Place(c, i), Place(c, i) + 1}]_vars

C14_Witness ==
    \E t \in queue["PCIE_REDUCE"] :
        /\ Len(call[t.call].queue_list) = 5
        /\ t.queue_list = <<"PCIE_REDUCE", "PUSH">>
        /\ Place(t.call, t.idx) = 4
        /\ \E i \in Siblings(t.call) : Place(t.call, i) = 6

\* the increments of call c's counter that observed the post-value
\* total_partnum: each of them invoked the callback on a worker's thread
ObservedTotal(c) ==
    IF call[c].cb_thread \in QueueTypes THEN call[c].callbacks ELSE 0

\* the counter of every call counts the siblings that have left their last
\* stage and lies between 0 and total_partnum = |context.key_list|; at most
\* one increment has observed total_partnum, and exactly one has when the
\* last of the siblings has finished
CounterCounts ==
    \A c \in Calls :
        call[c].pc # "idle" =>
            /\ call[c].total_partnum = Len(context.key_list)
            /\ 0 <= call[c].counter /\ call[c].counter <= call[c].total_partnum
            /\ call[c].counter = Cardinality(call[c].finished)
            /\ call[c].finished \subseteq Siblings(c)
            /\ ObservedTotal(c) <= 1
            /\ (call[c].counter >= 1 /\ call[c].counter = call[c].total_partnum)
                   <=> ObservedTotal(c) = 1

\* C15: the shared counter of a call starts at 0 and is incremented exactly
\* once per sibling partition, by one, and only when that partition leaves
\* the last stage of its itinerary; so 0 <= counter <= total_partnum =
\* |context.key_list|, the counter equals the number of siblings that have
\* finished, and exactly one increment observes the post-value total_partnum,
\* in whatever order the stage workers drain the siblings.
C15_CounterPerPartition ==
    [][/\ CounterCounts'
       /\ \A c \in Calls :
              /\ (call[c].pc = "idle" /\ call'[c].pc # "idle") => call'[c].counter = 0
              /\ call'[c].counter # call[c].counter =>
                     /\ call'[c].counter = call[c].counter + 1
                     /\ \E t \in InFlight(c) :
                            /\ Len(t.queue_list) = 1
                            /\ t.idx \notin call[c].finished
                            /\ call'[c].finished = call[c].finished \cup {t.idx}
                            /\ InFlight(c)' = InFlight(c) \ {t}]_vars

C15_Witness ==
    \E c \in Calls :
        /\ call[c].total_partnum = 3 /\ call[c].counter = 3
        /\ call[c].finished = {1, 2, 3}
        /\ call[c].callbacks = 1 /\ call[c].cb_thread = "BROADCAST"
        /\ Len(call[c].queue_list) = 4

\* C16: when PartitionTensor has produced a number of partitions other than
\* |context.key_list|, EnqueueTensor fails the count check: the process is
\* terminated, no partition has been added to any stage queue and the
\* callback has not been invoked, whatever the itinerary, the empty one of a
\* CPU tensor included.
C16_CountMismatchFails ==
    \A c \in Calls :
        (/\ call[c].pc \notin {"idle", "spinning"}
         /\ SizesMatch(call[c].input, call[c].output)
         /\ Len(call[c].partitions) # Len(context.key_list))
            => /\ call[c].pc = "aborted" /\ call[c].failed = "count"
               /\ halted
               /\ InFlight(c) = {}
               /\ \A q \in QueueTypes : queue[q] = {}
               /\ call[c].finished = {}
               /\ call[c].callbacks = 0 /\ call[c].cb_thread = "none"

C16_Witness ==
    \E c \in Calls :
        /\ call[c].failed = "count" /\ halted
        /\ call[c].device = CPU_DEVICE_ID /\ call[c].queue_list = <<>>
        /\ Len(call[c].partitions) = 1 /\ Len(context.key_list) = 2
        /\ call[c].callbacks = 0

\* InitTensor has been called on process p
InitCalled(p) == init[p].pc # "idle" \/ init[p].calls >= 1

\* the call of process p was ended by one of the two entry checks
EntryRejected(p) ==
    init[p].pc = "aborted" /\ init[p].failed \in {"no_keys", "parts"}

\* C17: InitTensor passes its entry checks exactly when |key_list| > 0 and
\* |key_list| = ceil(buff_len / partition_bound), also where buff_len +
\* partition_bound - 1 does not fit in an unsigned int; a call they end has
\* not touched the context, opened shared memory, pushed or entered a barrier.
C17_InitEntryChecks ==
    \A p \in JobProcs :
        InitCalled(p) =>
            /\ EntryRejected(p) <=>
                   ~(/\ Len(ctx[p].key_list) > 0
                     /\ Len(ctx[p].key_list) = CeilDiv(ctx[p].buff_len, bound))
            /\ EntryRejected(p) =>
                   /\ ctx[p] = DeclareContext(ctx[p].buff_len, bound)
                   /\ opened[p] = 0
                   /\ PushesBy(p) = <<>>
                   /\ p \notin arrived

\* the (key, offset, len) EnqueueTensor gives the k-th partition of a tensor
\* of size bytes on a context with this key_list
EnqueuedWindow(key_list, size, k) ==
    [key |-> AssignKey(key_list, k),
     offset |-> PartitionTensor(size, bound).partitions[k].offset,
     len |-> PartitionTensor(size, bound).partitions[k].len]

\* the (key, offset, len) of a push
PushedWindow(e) == [key |-> e.key, offset |-> e.offset, len |-> e.len]

\* C18: for every context InitTensor accepts, the windows (key, offset, len)
\* worker 0 has pushed when its InitTensor returns are, index by index, those
\* EnqueueTensor assigns to the partitions of a tensor of buff_len bytes.
C18_InitMatchesEnqueue ==
    \A p \in WorkerGroup :
        (IsDistributed /\ GetWorkerID(p) = 0 /\ init[p].calls >= 1) =>
            LET size == ctx[p].buff_len
                n == Len(ctx[p].key_list)
            IN /\ PartitionTensor(size, bound).terminates
               /\ Len(PartitionTensor(size, bound).partitions) = n
               /\ Len(PushesBy(p)) >= n
               /\ \A k \in 1 .. n :
                      PushedWindow(PushesBy(p)[k])
                          = EnqueuedWindow(ctx[p].key_list, size, k)

\* process p is inside InitTensor, past the entry checks
InsideInit(p) == init[p].pc \in {"loop", "barrier", "waiting"}

NoStageTwice(ql) == \A a, b \in 1 .. Len(ql) : a # b => ql[a] # ql[b]

\* C20: for every non-CPU device and every flag combination the push and the
\* pull itinerary are non-empty, push contains REDUCE, pull ends with
\* BROADCAST, neither names a stage twice and they share no stage; so a call
\* made with an itinerary from the builders has taken the synchronous
\* short-circuit if and only if its device is the CPU.
C20_ItinerariesWellFormed ==
    /\ \A d \in Devices \ {CPU_DEVICE_ID} :
           LET push == GetPushQueueList(d)
               pull == GetPullQueueList(d)
           IN /\ push # <<>> /\ pull # <<>>
              /\ "REDUCE" \in Range(push)
              /\ pull[Len(pull)] = "BROADCAST"
              /\ NoStageTwice(push) /\ NoStageTwice(pull)
              /\ Range(push) \cap Range(pull) = {}
    /\ \A c \in Calls :
           call[c].pc \in {"adding", "returned"} =>
               /\ call[c].queue_list =
                      (IF call[c].dir = "push" THEN GetPushQueueList(call[c].device)
                                               ELSE GetPullQueueList(call[c].device))
               /\ call[c].queue_list = <<>> <=> call[c].device = CPU_DEVICE_ID
               /\ call[c].cb_thread = "caller" <=> call[c].device = CPU_DEVICE_ID
               /\ (call[c].pc = "adding" \/ InFlight(c) # {} \/ call[c].finished # {})
                      => call[c].device # CPU_DEVICE_ID

C20_Witness ==
    \E c \in Calls :
        /\ call[c].pc = "returned" /\ call[c].dir = "pull"
        /\ call[c].device # CPU_DEVICE_ID
        /\ ~flags.dist /\ ~flags.pcie /\ flags.sig
        /\ call[c].queue_list = <<"BROADCAST">>
        /\ call[c].callbacks = 1 /\ call[c].cb_thread = "BROADCAST"

====
